---- MODULE Spec2Model ----
(***************************************************************************)
(* NVDLA queue and task management (nvdla_queue.c): one nvhost_queue with  *)
(* its in-flight task list, the queue syncpoint, concurrent callers of     *)
(* nvdla_queue_submit, the completion sweep nvdla_queue_update run by the  *)
(* syncpoint notifier, and nvdla_queue_abort.                              *)
(***************************************************************************)
EXTENDS Integers, Sequences, FiniteSets, TLC

(* ---- bounds of the model ---- *)
MaxTasks == 2
NumSubmitters == 2
MaxBusy == 2
MaxBuilds == 2
UintBits == 3
\* the configured maximum of each kind of fence and status entry
MaxFences == 2
\* counter/threshold pairs in one sync fd
MaxSyncPts == 3
\* entries of the address list of a task
MaxAddresses == 2

(* ---- program constants ---- *)
NVDLA_QUEUE_ABORT_TIMEOUT == 10000
NVDLA_QUEUE_ABORT_RETRY_PERIOD == 500
\* the largest unsigned int, at the width the model gives the type
UINT_MAX == 2^UintBits - 1

\* tasks are numbered in the order list_add_tail links them; a run submits
\* MaxTasks of them, and the long runs of SpecLong one more
LongTasks == MaxTasks + 1
Tasks == 1..LongTasks
\* values a u32 read of a freed struct nvdla_task can give for task->fence
FenceVals == 0..MaxTasks
\* indices of the task descriptor pool of the queue
Slots == 0..(LongTasks - 1)
\* the handles a task can have pinned: the batch of memory handles with the
\* address list, the semaphore of its pre-fence and of its post-fence, and
\* its input and output status entries
Handles == {"mem", "presem", "instat", "postsem", "outstat"}
\* what the caller declares for a task: the kind of its pre-fence and of its
\* post-fence ("none" when it has none, "bad" for a kind the driver does not
\* know), its status entries, and its number of addresses
PlainRequest ==
    [pre |-> "none", post |-> "syncpt", instat |-> 0, outstat |-> 0, naddr |-> 0]
FullRequest ==
    [pre |-> "sem", post |-> "sem", instat |-> 1, outstat |-> 1, naddr |-> 1]
BadPreRequest ==
    [pre |-> "bad", post |-> "sem", instat |-> 1, outstat |-> 0, naddr |-> 0]
BadPostRequest ==
    [pre |-> "syncpt", post |-> "bad", instat |-> 0, outstat |-> 0, naddr |-> 1]
Requests == {PlainRequest, FullRequest, BadPreRequest, BadPostRequest}
\* the call that fails during one build, if any: the pool, one of the three
\* kcalloc, dma_buf_get, dma_buf_vmap, or one nvhost_buffer_submit_pin
Faults == {"none", "slot", "handles", "dma_addr", "dma_size", "buf_get", "vmap",
           "pin_mem", "pin_presem", "pin_instat", "pin_postsem", "pin_outstat"}

VARIABLES
    tasklist,     \* queue->tasklist, oldest first
    lock,         \* queue->list_lock: "free", or held by "submit" or "sweep"
    min_val,      \* syncpt min_val[queue->syncpt_id]: the counter's current value
    max_val,      \* syncpt max_val[queue->syncpt_id]: the issued maximum
    sp_ref,       \* syncpoint references (nvhost_syncpt_get_ref / put_ref)
    pm_ref,       \* power references (nvhost_module_busy / idle)
    notifiers,    \* thresholds with a registered nvdla_queue_update notifier
    engine,       \* tasks dispatched to the engine and not yet signalled
    fence,        \* task->fence
    ref,          \* task->ref (kref); 0 = task_free has run
    caller_ref,   \* the caller still holds the reference from task allocation
    ntasks,       \* tasks linked so far
    task_limit,   \* tasks this run submits at most
    waiting,      \* callers of nvdla_queue_submit blocked in mutex_lock
    spc, stask,   \* the caller holding list_lock: position ("none" if none), task
    sret,         \* what the last call of nvdla_queue_submit that returned, returned
    wpc, cursor, nr_completed,  \* sweep: position, list cursor, notifier count
    apc, retry, err, abort_t,   \* abort: position and locals
    \* history, written only to state the properties
    completions,  \* per task, runs of nvdla_task_free_locked
    flush_count,  \* DLA_CMD_QUEUE_FLUSH commands sent by the current abort call
    busy_count,   \* "busy" answers the current abort call received
    abort_n0,     \* tasks whose submit had returned when the current abort call began
    abort_busy, abort_idle,  \* nvhost_module_busy / idle done by the current abort call
    did_reset,    \* the current abort call reset the syncpoint
    \* task build and teardown
    bpc,          \* the task the caller is preparing: "none", "new", "built", "failed", "freed"
    nbuilds,      \* calls of nvdla_fill_task_desc so far
    bret,         \* what nvdla_fill_task_desc returned for that task, until the caller acts on it
    bfault,       \* history: the call that failed during it, "none" if none did
    sequence,     \* queue->sequence
    request,      \* per task, what the caller declared
    slot_owner,   \* per pool slot, the task it is allocated to (0 = free)
    pool_index,   \* task->pool_index
    task_desc,    \* task->task_desc is not NULL
    memory_handles, \* task->memory_handles: "null", "alloc", or "dangling" once kfree'd
    num_handles,  \* task->num_handles
    pinned,       \* per task, the handles pinned and not unpinned
    desc_written, \* per task, the descriptor address fields and address list were rewritten
    \* history of teardown
    slot_frees,   \* per task, calls of nvdla_release_task_desc_mem
    foreign_free, \* a slot was freed that was not allocated to the task freeing it
    handle_frees, \* per task, kfree(task->memory_handles)
    bad_unpin,    \* per task, handles unpinned that were not pinned
    \* references on the queue
    qref,         \* per task, the queue references held on its behalf
    owner_ref,    \* the owner of the queue still holds its own queue reference
    \* linking and the descriptors
    desc_next,    \* per pool slot that holds a descriptor, task_desc->next: slot + 1
                  \* of the next descriptor, 0 if none; a slot back in the pool has
                  \* no content the program may read, and 0 stands for it
    resubmit,     \* calls of nvdla_queue_submit the callers still make with a task submitted before
    own_signal,   \* per task, the value fields of the actions in its descriptor's
                  \* post-action list that signal the queue's own counter
    enc,          \* the encoding of one request's action lists: empty, then the
                  \* counts the caller declared, then the layout encoded for them;
                  \* or the sizing of the descriptor: the configured maxima, then
                  \* the size computed for them; or one action list record by
                  \* record: the fences and status entries, then the list; or
                  \* one address list: the list and the slot, then the outcome
    seqb          \* per caller that is stamping sequence numbers: its position in
                  \* nvdla_fill_task_desc, the value it read, the builds it still
                  \* makes; empty when no caller is followed at that grain

vars == <<tasklist, lock, min_val, max_val, sp_ref, pm_ref, notifiers, engine,
          fence, ref, caller_ref, ntasks, task_limit, waiting, spc, stask, sret, wpc, cursor,
          nr_completed, apc, retry, err, abort_t, completions, flush_count,
          busy_count, abort_n0, abort_busy, abort_idle, did_reset,
          bpc, nbuilds, bret, bfault, sequence, request, slot_owner, pool_index,
          task_desc, memory_handles, num_handles, pinned, desc_written,
          slot_frees, foreign_free, handle_frees, bad_unpin,
          qref, owner_ref, desc_next, resubmit, own_signal, enc, seqb>>

qvars == <<tasklist, lock, min_val, max_val, sp_ref, pm_ref, notifiers, engine,
           fence, ref>>
svars == <<waiting, spc, stask, sret, ntasks, task_limit>>
wvars == <<wpc, cursor, nr_completed, completions>>
avars == <<apc, retry, err, abort_t, flush_count, busy_count, abort_n0,
           abort_busy, abort_idle, did_reset>>
\* the caller's build state, and the resources of the tasks
cvars == <<bpc, nbuilds, bret, bfault, sequence, request>>
rvars == <<slot_owner, pool_index, task_desc, memory_handles, num_handles,
           pinned, desc_written, slot_frees, foreign_free, handle_frees,
           bad_unpin>>
\* the queue references
kvars == <<qref, owner_ref>>
\* the chain of descriptors and the resubmissions
lvars == <<desc_next, resubmit>>
\* the descriptor contents, and the encoding of one request
dvars == <<own_signal>>
evars == <<enc, seqb>>
xvars == <<kvars, lvars, dvars, evars>>

(* ---- helpers ---- *)
Last(s) == s[Len(s)]
RemoveAt(s, i) == SubSeq(s, 1, i - 1) \o SubSeq(s, i + 1, Len(s))
InList(t) == \E i \in 1..Len(tasklist) : tasklist[i] = t

\* nvhost_syncpt_is_expired: the threshold has been reached by the current value
nvhost_syncpt_is_expired(cur, thresh) == cur >= thresh
\* nvhost_syncpt_incr_max: add incrs to the issued maximum and return it
nvhost_syncpt_incr_max(max, incrs) == max + incrs
\* nvdla_task_syncpt_reset: atomic_set(&syncpt->min_val[id], fence) and the
\* hardware reset to it: the current value becomes the given fence
nvdla_task_syncpt_reset(fence_val) == fence_val
\* number of increments nvdla_queue_submit asks of nvhost_syncpt_incr_max
\* variant: a submit that asks for no increment
SubmitIncrsNone == 1 - 1
SubmitIncrs == 1
\* nvdla_task_free_locked, "update takslist": list_del(&task->list)
\* variant: a release that leaves the task linked
free_locked_list_keep(l, i) == l
\* variant: a release that unlinks the tail of the list
free_locked_list_tail(l, i) == SubSeq(l, 1, Len(l) - 1)
free_locked_list(l, i) == RemoveAt(l, i)

\* list_add_tail(&task->list, &queue->tasklist), as the forward walk from the
\* head sees the list afterwards. A task that is not linked goes to the end.
\* For a task that is linked, __list_add(new, head->prev, head) rewrites the
\* task's own pointers: if it was the tail its next points to itself and the
\* walk meets it again; otherwise its next is the head, and the walk ends at it
list_add_tail(l, t) ==
    IF \A i \in 1..Len(l) : l[i] # t THEN Append(l, t)
    ELSE IF Last(l) = t THEN Append(l, t)
    ELSE SubSeq(l, 1, CHOOSE i \in 1..Len(l) : l[i] = t)

\* nvhost_syncpt_put_ref in nvdla_task_free_locked, "give syncpoint reference"
\* variant: a completion that keeps the syncpoint reference
nvhost_syncpt_put_ref_none(n) == n
nvhost_syncpt_put_ref(n) == n - 1

\* nvhost_queue_get and nvhost_queue_put on the count kept for one task
\* variant: a nvdla_task_get that takes no queue reference
nvhost_queue_get_none(q) == q
nvhost_queue_get(q) == q + 1
nvhost_queue_put(q) == q - 1

(* ---- nvdla_queue_abort: the flush loop ---- *)
\* int retry = NVDLA_QUEUE_ABORT_TIMEOUT / NVDLA_QUEUE_ABORT_RETRY_PERIOD
\* variant: a budget of one attempt more
AbortRetryInitOff ==
    NVDLA_QUEUE_ABORT_TIMEOUT \div NVDLA_QUEUE_ABORT_RETRY_PERIOD + 1
AbortRetryInit == NVDLA_QUEUE_ABORT_TIMEOUT \div NVDLA_QUEUE_ABORT_RETRY_PERIOD
\* if (list_empty(&queue->tasklist)) return 0;
\* variant: an entry test that never sees an empty list
AbortListEmptyNever(l) == FALSE
AbortListEmpty(l) == l = <<>>
\* if (err == DLA_ERR_PROCESSOR_BUSY) mdelay(..) else break
\* variant: a loop that retries on every failure
AbortRetryableAll(e) == e # "ok"
AbortRetryable(e) == e = "busy"
\* if (!retry || err) goto done
AbortFailed(r, e) == r = 0 \/ e # "ok"
\* where the call continues after the flush loop
\* variant: a failure path that returns without reaching done
AbortAfterFlushLeak(r, e) == IF AbortFailed(r, e) THEN "ret" ELSE "tail"
AbortAfterFlush(r, e) == IF AbortFailed(r, e) THEN "done" ELSE "tail"

\* the engine's answers to successive flush commands: "busy" k times, then
\* last (and last again to any further command)
Script(k, last) == [i \in 1..(k + 1) |-> IF i <= k THEN "busy" ELSE last]
Answer(script, i) == script[IF i <= Len(script) THEN i ELSE Len(script)]
\* answers of nvdla_send_cmd: success, DLA_ERR_PROCESSOR_BUSY, any other error
Responses == {"ok", "busy", "fail"}
\* the scripts tried: up to MaxBusy "busy" answers, or one less than the budget
AnswerScripts ==
    {Script(k, last) : k \in (0..MaxBusy) \cup {AbortRetryInit - 1},
                       last \in Responses}

\* do { err = nvdla_send_cmd(FLUSH); if (busy) mdelay(); else break; }
\* while (--retry);  run from the i-th command with r retries left
RECURSIVE FlushLoop(_, _, _)
FlushLoop(script, i, r) ==
    LET e == Answer(script, i) IN
    IF AbortRetryable(e) /\ r - 1 # 0
    THEN FlushLoop(script, i + 1, r - 1)
    ELSE [err |-> e, sent |-> i,
          retry |-> IF AbortRetryable(e) THEN r - 1 ELSE r]

InitQueue ==
    /\ tasklist = <<>> /\ lock = "free"
    /\ min_val = 0 /\ max_val = 0 /\ sp_ref = 0 /\ pm_ref = 0
    /\ notifiers = {} /\ engine = <<>>
    /\ fence = [t \in Tasks |-> 0]
    /\ ref = [t \in Tasks |-> 1]
    /\ caller_ref = [t \in Tasks |-> TRUE]
    /\ ntasks = 0
    /\ waiting = 0 /\ spc = "none" /\ stask = 0 /\ sret = "none"
    /\ wpc = "idle" /\ cursor = 0 /\ nr_completed = 0
    /\ apc = "idle" /\ retry = 0 /\ err = "ok" /\ abort_t = 0
    /\ completions = [t \in Tasks |-> 0]
    /\ flush_count = 0 /\ busy_count = 0 /\ abort_n0 = 0
    /\ abort_busy = 0 /\ abort_idle = 0 /\ did_reset = FALSE
    /\ bret = "none" /\ bfault = "none"
    /\ foreign_free = FALSE
    /\ slot_frees = [t \in Tasks |-> 0]
    /\ handle_frees = [t \in Tasks |-> 0]
    /\ bad_unpin = [t \in Tasks |-> {}]
    /\ pinned = [t \in Tasks |-> {}]
    /\ desc_written = [t \in Tasks |-> FALSE]
    /\ qref = [t \in Tasks |-> 1]
    /\ owner_ref = TRUE
    /\ desc_next = [i \in Slots |-> 0]

\* the counter signals nvdla_fill_postactions writes: for a SYNCPT post-fence
\* add_fence_action(POSTACTION_SEM, nvhost_syncpt_address(queue->syncpt_id), 0),
\* value 0; the other kinds of post-fence and the status entries write
\* actions on the caller's memory, none on the counter
SignalValues(r) == IF r.post = "syncpt" THEN <<0>> ELSE <<>>

\* the sequence counter of a new queue
InitSequence == sequence = 0
\* no call passes a task a second time, no request is being encoded, and no
\* caller is followed through the stamping of a sequence number
InitPlain == resubmit = 0 /\ enc = <<>> /\ seqb = <<>> /\ InitSequence

\* the tasks have been built before the run: each has its descriptor slot,
\* no fences that need a pin and no addresses
InitBuilt ==
    /\ bpc = "none" /\ nbuilds = MaxBuilds
    /\ request = [t \in Tasks |-> PlainRequest]
    /\ slot_owner = [i \in Slots |-> i + 1]
    /\ pool_index = [t \in Tasks |-> t - 1]
    /\ task_desc = [t \in Tasks |-> TRUE]
    /\ memory_handles = [t \in Tasks |-> "null"]
    /\ num_handles = [t \in Tasks |-> 0]
    /\ own_signal = [t \in Tasks |-> SignalValues(PlainRequest)]

Init == InitQueue /\ InitBuilt /\ InitPlain /\ task_limit = MaxTasks
InitLong == InitQueue /\ InitBuilt /\ InitPlain /\ task_limit = LongTasks

(* ---- task teardown ---- *)
\* the tasks that have been allocated: those handed to nvdla_queue_submit
\* and the one the caller is preparing
Allocated(t) ==
    \/ t <= task_limit
    \/ t = task_limit + 1 /\ bpc \in {"new", "built", "failed"}
\* the kref of the queue: the owner's reference and those held for the tasks
RECURSIVE SumRefs(_, _)
SumRefs(q, n) ==
    IF n = 0 THEN 0
    ELSE (IF Allocated(n) THEN q[n] ELSE 0) + SumRefs(q, n - 1)
QueueRefs == (IF owner_ref THEN 1 ELSE 0) + SumRefs(qref, LongTasks)

\* nvhost_queue_free_task_memory: the slot goes back to the pool
nvhost_queue_free_task_memory(owner, index) == [owner EXCEPT ![index] = 0]

\* task_free, run by kref_put when the last reference goes; it reads
\* task->queue->pool->pdev and frees the slot through task->queue:
\* nvdla_release_task_desc_mem (free the slot task->pool_index, clear the
\* descriptor fields), kfree(task->memory_handles) if not NULL, kfree(task)
task_free(t) ==
    /\ slot_owner' = nvhost_queue_free_task_memory(slot_owner, pool_index[t])
    /\ foreign_free' = (foreign_free \/ slot_owner[pool_index[t]] # t)
    /\ slot_frees' = [slot_frees EXCEPT ![t] = @ + 1]
    /\ task_desc' = [task_desc EXCEPT ![t] = FALSE]
    /\ pool_index' = [pool_index EXCEPT ![t] = 0]
    /\ handle_frees' = [handle_frees EXCEPT
                          ![t] = IF memory_handles[t] # "null" THEN @ + 1 ELSE @]
    /\ UNCHANGED memory_handles
    \* the descriptor of the task is gone with its slot
    /\ desc_next' = IF slot_owner[pool_index[t]] = t
                    THEN [desc_next EXCEPT ![pool_index[t]] = 0]
                    ELSE desc_next
\* a nvdla_task_put that leaves references behind
NoTaskFree ==
    UNCHANGED <<slot_owner, foreign_free, slot_frees, task_desc, pool_index,
                handle_frees, memory_handles, desc_next>>

\* nvdla_task_put: nvhost_queue_put(task->queue), then
\* kref_put(&task->ref, task_free)
nvdla_task_put(t) ==
    /\ qref' = [qref EXCEPT ![t] = nvhost_queue_put(@)]
    /\ ref' = [ref EXCEPT ![t] = @ - 1]
    /\ IF ref[t] = 1 THEN task_free(t) ELSE NoTaskFree
    /\ UNCHANGED owner_ref

\* task->task_desc_pa, 0 once the descriptor is released
task_desc_pa(t) == IF task_desc[t] THEN pool_index[t] + 1 ELSE 0
\* if (!list_empty(&queue->tasklist)) last_task->task_desc->next =
\* task->task_desc_pa
\* variant: a submit that leaves the previous tail's descriptor alone
chain_next_none(nxt, l, t) == nxt
chain_next(nxt, l, t) ==
    IF l # <<>> /\ task_desc[Last(l)]
    THEN [nxt EXCEPT ![pool_index[Last(l)]] = task_desc_pa(t)]
    ELSE nxt

\* the handles nvdla_task_free_locked unpins: the memory handles if
\* task->num_handles, the semaphore of a SEMAPHORE pre-fence or post-fence,
\* every status entry with a handle
free_locked_unpins(t) ==
    {h \in Handles :
        \/ h = "mem" /\ num_handles[t] # 0
        \/ h = "presem" /\ request[t].pre = "sem"
        \/ h = "instat" /\ request[t].instat > 0
        \/ h = "postsem" /\ request[t].post = "sem"
        \/ h = "outstat" /\ request[t].outstat > 0}

(* ---- nvdla_queue_submit ---- *)
\* calls of nvdla_queue_submit in progress
InSubmit == waiting + (IF spc = "none" THEN 0 ELSE 1)

\* variant: a call that goes on to the lock after nvhost_module_busy failed
SubmitBusyGoesOn ==
    /\ owner_ref
    /\ InSubmit < NumSubmitters /\ ntasks + waiting < task_limit + resubmit
    /\ \E ok \in BOOLEAN :
        IF ok
        THEN /\ pm_ref' = pm_ref + 1
             /\ waiting' = waiting + 1
             /\ UNCHANGED sret
        ELSE /\ sret' = "einval"
             /\ waiting' = waiting + 1
             /\ UNCHANGED pm_ref
    /\ UNCHANGED <<tasklist, lock, min_val, max_val, sp_ref, notifiers, engine,
                   fence, ref, caller_ref, ntasks, task_limit, spc, stask>>
    /\ UNCHANGED <<wvars, avars>>
    /\ UNCHANGED <<cvars, rvars, xvars>>
\* nvhost_module_busy(pdev), before the lock; a failure returns -EINVAL
SubmitBusy ==
    /\ owner_ref
    /\ InSubmit < NumSubmitters /\ ntasks + waiting < task_limit + resubmit
    /\ \E ok \in BOOLEAN :
        IF ok
        THEN /\ pm_ref' = pm_ref + 1
             /\ waiting' = waiting + 1
             /\ UNCHANGED sret
        ELSE /\ sret' = "einval"
             /\ UNCHANGED <<pm_ref, waiting>>
    /\ UNCHANGED <<tasklist, lock, min_val, max_val, sp_ref, notifiers, engine,
                   fence, ref, caller_ref, ntasks, task_limit, spc, stask>>
    /\ UNCHANGED <<wvars, avars>>
    /\ UNCHANGED <<cvars, rvars, xvars>>

\* the task a call passes: the next new one, or one submitted before that
\* its caller still holds
LinkChoices ==
    {t \in Tasks : \/ t = ntasks + 1 /\ ntasks < task_limit
                   \/ t <= ntasks /\ resubmit > 0 /\ caller_ref[t]}

\* mutex_lock; nvdla_task_get(task); the previous tail's descriptor is
\* chained to the task's; list_add_tail(&task->list, &queue->tasklist)
SubmitLink ==
    /\ waiting > 0 /\ lock = "free"
    /\ lock' = "submit"
    /\ waiting' = waiting - 1
    /\ \E t \in LinkChoices :
        /\ stask' = t
        /\ ntasks' = IF t > ntasks THEN t ELSE ntasks
        /\ resubmit' = IF t > ntasks THEN resubmit ELSE resubmit - 1
        /\ ref' = [ref EXCEPT ![t] = @ + 1]
        /\ qref' = [qref EXCEPT ![t] = nvhost_queue_get(@)]
        /\ desc_next' = chain_next(desc_next, tasklist, t)
        /\ tasklist' = list_add_tail(tasklist, t)
    /\ spc' = "fence"
    /\ UNCHANGED <<min_val, max_val, sp_ref, pm_ref, notifiers, engine, fence,
                   caller_ref, sret, task_limit>>
    /\ UNCHANGED <<wvars, avars>>
    /\ UNCHANGED <<cvars, rvars, owner_ref, dvars, evars>>

\* task->fence = nvhost_syncpt_incr_max(..., 1); nvhost_syncpt_get_ref;
\* nvhost_intr_register_notifier, whose failure unlocks and returns the error;
\* then task->postfences[0].syncpoint_value = task->fence, a field of the
\* task structure that the descriptor does not share
SubmitFence ==
    /\ spc = "fence"
    /\ max_val' = nvhost_syncpt_incr_max(max_val, SubmitIncrs)
    /\ fence' = [fence EXCEPT ![stask] = max_val']
    /\ sp_ref' = sp_ref + 1
    /\ \E registered \in BOOLEAN :
        IF registered
        THEN /\ notifiers' = notifiers \cup {max_val'}
             /\ spc' = "dispatch"
             /\ UNCHANGED <<lock, sret, stask>>
        ELSE /\ lock' = "free"
             /\ spc' = "none" /\ stask' = 0
             /\ sret' = "err"
             /\ UNCHANGED notifiers
    /\ UNCHANGED <<tasklist, min_val, pm_ref, engine, ref, caller_ref, ntasks,
                   task_limit, waiting>>
    /\ UNCHANGED <<wvars, avars>>
    /\ UNCHANGED <<cvars, rvars, xvars>>

\* nvdla_send_cmd(DLA_CMD_SUBMIT_TASK) with list_lock held; on failure
\* nvdla_task_syncpt_reset(task->fence); mutex_unlock; return err
SubmitDispatch ==
    /\ spc = "dispatch"
    /\ \E sent \in BOOLEAN :
        IF sent
        THEN /\ engine' = Append(engine, stask)
             /\ sret' = "ok"
             /\ UNCHANGED min_val
        ELSE /\ min_val' = nvdla_task_syncpt_reset(fence[stask])
             /\ sret' = "err"
             /\ UNCHANGED engine
    /\ lock' = "free"
    /\ spc' = "none" /\ stask' = 0
    /\ UNCHANGED <<tasklist, max_val, sp_ref, pm_ref, notifiers, fence, ref,
                   caller_ref, ntasks, task_limit, waiting>>
    /\ UNCHANGED <<wvars, avars>>
    /\ UNCHANGED <<cvars, rvars, xvars>>

\* the caller of nvdla_queue_submit drops its own task reference once the
\* call has returned: nvdla_task_put
CallerPut(t) ==
    /\ t <= ntasks /\ caller_ref[t]
    /\ stask # t
    /\ caller_ref' = [caller_ref EXCEPT ![t] = FALSE]
    /\ nvdla_task_put(t)
    /\ UNCHANGED <<tasklist, lock, min_val, max_val, sp_ref, pm_ref, notifiers,
                   engine, fence>>
    /\ UNCHANGED <<svars, wvars, avars>>
    /\ UNCHANGED <<cvars, num_handles, pinned, desc_written, bad_unpin>>
    /\ UNCHANGED <<resubmit, dvars, evars>>

(* ---- the engine ---- *)
\* the engine finishes its oldest task; the task's post-action increments the syncpoint
EngineComplete ==
    /\ engine # <<>>
    /\ engine' = Tail(engine)
    /\ min_val' = min_val + 1
    /\ UNCHANGED <<tasklist, lock, max_val, sp_ref, pm_ref, notifiers, fence, ref,
                   caller_ref>>
    /\ UNCHANGED <<svars, wvars, avars>>
    /\ UNCHANGED <<cvars, rvars, xvars>>

(* ---- nvdla_queue_update ---- *)
\* a notifier whose threshold is reached calls nvdla_queue_update: mutex_lock
SweepStart ==
    /\ wpc = "idle" /\ lock = "free"
    /\ \E n \in notifiers :
        /\ n <= min_val
        /\ notifiers' = notifiers \ {n}
    /\ lock' = "sweep"
    /\ wpc' = "walk" /\ cursor' = 1 /\ nr_completed' = 1
    /\ UNCHANGED <<tasklist, min_val, max_val, sp_ref, pm_ref, engine, fence, ref,
                   caller_ref>>
    /\ UNCHANGED <<svars, avars, completions>>
    /\ UNCHANGED <<cvars, rvars, kvars, lvars, dvars, evars>>

\* one iteration of list_for_each_entry_safe: nvhost_syncpt_is_expired, and
\* nvdla_task_free_locked (syncpt put_ref, list_del, nvdla_task_put) when it is
SweepStep ==
    /\ wpc = "walk" /\ cursor <= Len(tasklist)
    /\ LET t == tasklist[cursor] IN
        IF nvhost_syncpt_is_expired(min_val, fence[t])
        THEN /\ sp_ref' = nvhost_syncpt_put_ref(sp_ref)
             /\ pinned' = [pinned EXCEPT ![t] = @ \ free_locked_unpins(t)]
             /\ bad_unpin' = [bad_unpin EXCEPT
                                ![t] = @ \cup (free_locked_unpins(t) \ pinned[t])]
             /\ tasklist' = free_locked_list(tasklist, cursor)
             /\ nvdla_task_put(t)
             /\ completions' = [completions EXCEPT ![t] = @ + 1]
             /\ UNCHANGED cursor
        ELSE /\ cursor' = cursor + 1
             /\ NoTaskFree
             /\ UNCHANGED <<sp_ref, tasklist, ref, completions, pinned, bad_unpin>>
             /\ UNCHANGED <<qref, owner_ref>>
    /\ UNCHANGED <<lock, min_val, max_val, pm_ref, notifiers, engine, fence,
                   caller_ref, wpc, nr_completed>>
    /\ UNCHANGED <<svars, avars>>
    /\ UNCHANGED <<cvars, num_handles, desc_written>>
    /\ UNCHANGED <<resubmit, dvars, evars>>

\* end of the walk: nvhost_module_idle_mult(pdev, nr_completed); mutex_unlock
SweepEnd ==
    /\ wpc = "walk" /\ cursor > Len(tasklist)
    /\ pm_ref' = pm_ref - nr_completed
    /\ lock' = "free"
    /\ wpc' = "idle" /\ cursor' = 0 /\ nr_completed' = 0
    /\ UNCHANGED <<tasklist, min_val, max_val, sp_ref, notifiers, engine, fence,
                   ref, caller_ref, completions>>
    /\ UNCHANGED <<svars, avars>>
    /\ UNCHANGED <<cvars, rvars, kvars, lvars, dvars, evars>>

(* ---- nvdla_queue_abort ---- *)
\* entry: retry = TIMEOUT / PERIOD; if (list_empty(&queue->tasklist)) return 0;
\* the list is read without list_lock
AbortStart ==
    /\ apc = "idle" /\ owner_ref
    /\ retry' = AbortRetryInit
    /\ apc' = IF AbortListEmpty(tasklist) THEN "ret" ELSE "busy"
    /\ abort_n0' = IF spc = "none" THEN ntasks ELSE ntasks - 1
    /\ UNCHANGED <<err, abort_t, flush_count, busy_count, abort_busy, abort_idle,
                   did_reset>>
    /\ UNCHANGED <<qvars, caller_ref, svars, wvars>>
    /\ UNCHANGED <<cvars, rvars, xvars>>

\* err = nvhost_module_busy(pdev); if (err) return err;
AbortBusy ==
    /\ apc = "busy"
    /\ \E ok \in BOOLEAN :
        IF ok
        THEN /\ pm_ref' = pm_ref + 1 /\ abort_busy' = abort_busy + 1
             /\ apc' = "flush" /\ UNCHANGED err
        ELSE /\ err' = "poweron" /\ apc' = "ret"
             /\ UNCHANGED <<pm_ref, abort_busy>>
    /\ UNCHANGED <<tasklist, lock, min_val, max_val, sp_ref, notifiers, engine,
                   fence, ref, caller_ref>>
    /\ UNCHANGED <<retry, abort_t, flush_count, busy_count, abort_n0, abort_idle,
                   did_reset>>
    /\ UNCHANGED <<svars, wvars>>
    /\ UNCHANGED <<cvars, rvars, xvars>>

\* the do { } while (--retry) loop against one script of engine answers, and
\* the test that follows it; a flush that succeeds empties the engine's queue
AbortFlush ==
    /\ apc = "flush"
    /\ \E script \in AnswerScripts :
        LET out == FlushLoop(script, 1, retry) IN
        /\ err' = out.err
        /\ retry' = out.retry
        /\ flush_count' = flush_count + out.sent
        /\ busy_count' = busy_count
              + Cardinality({j \in 1..out.sent : Answer(script, j) = "busy"})
        /\ engine' = IF out.err = "ok" THEN <<>> ELSE engine
        /\ apc' = AbortAfterFlush(out.retry, out.err)
    /\ UNCHANGED <<tasklist, lock, min_val, max_val, sp_ref, pm_ref, notifiers,
                   fence, ref, caller_ref>>
    /\ UNCHANGED <<abort_t, abort_n0, abort_busy, abort_idle, did_reset>>
    /\ UNCHANGED <<svars, wvars>>
    /\ UNCHANGED <<cvars, rvars, xvars>>

\* if (!list_empty(&queue->tasklist)) t = list_last_entry(...), without list_lock
AbortTail ==
    /\ apc = "tail"
    /\ IF AbortListEmpty(tasklist)
       THEN apc' = "done" /\ UNCHANGED abort_t
       ELSE apc' = "reset" /\ abort_t' = Last(tasklist)
    /\ UNCHANGED <<qvars, caller_ref, svars, wvars>>
    /\ UNCHANGED <<cvars, rvars, xvars>>
    /\ UNCHANGED <<retry, err, flush_count, busy_count, abort_n0, abort_busy,
                   abort_idle, did_reset>>

\* nvdla_task_syncpt_reset(t->sp, queue->syncpt_id, t->fence); t may have been
\* freed since the lookup, and then t->fence reads freed memory
AbortReset ==
    /\ apc = "reset"
    /\ \E f \in (IF ref[abort_t] = 0 THEN FenceVals ELSE {fence[abort_t]}) :
        min_val' = nvdla_task_syncpt_reset(f)
    /\ did_reset' = TRUE
    /\ apc' = "done"
    /\ UNCHANGED <<tasklist, lock, max_val, sp_ref, pm_ref, notifiers, engine,
                   fence, ref, caller_ref>>
    /\ UNCHANGED <<retry, err, abort_t, flush_count, busy_count, abort_n0,
                   abort_busy, abort_idle>>
    /\ UNCHANGED <<svars, wvars>>
    /\ UNCHANGED <<cvars, rvars, xvars>>

\* done: nvhost_module_idle(pdev); return err;
AbortDone ==
    /\ apc = "done"
    /\ pm_ref' = pm_ref - 1 /\ abort_idle' = abort_idle + 1
    /\ apc' = "ret"
    /\ UNCHANGED <<tasklist, lock, min_val, max_val, sp_ref, notifiers, engine,
                   fence, ref, caller_ref>>
    /\ UNCHANGED <<retry, err, abort_t, flush_count, busy_count, abort_n0,
                   abort_busy, did_reset>>
    /\ UNCHANGED <<svars, wvars>>
    /\ UNCHANGED <<cvars, rvars, xvars>>

\* the call has returned err to its caller; its locals go away
AbortReturn ==
    /\ apc = "ret"
    /\ apc' = "idle" /\ retry' = 0 /\ err' = "ok" /\ abort_t' = 0
    /\ flush_count' = 0 /\ busy_count' = 0 /\ abort_n0' = 0
    /\ abort_busy' = 0 /\ abort_idle' = 0 /\ did_reset' = FALSE
    /\ UNCHANGED <<qvars, caller_ref, svars, wvars>>
    /\ UNCHANGED <<cvars, rvars, xvars>>

Next ==
    \/ SubmitBusy
    \/ SubmitLink
    \/ SubmitFence
    \/ SubmitDispatch
    \/ \E t \in Tasks : CallerPut(t)
    \/ EngineComplete
    \/ SweepStart
    \/ SweepStep
    \/ SweepEnd
    \/ AbortStart
    \/ AbortBusy
    \/ AbortFlush
    \/ AbortTail
    \/ AbortReset
    \/ AbortDone
    \/ AbortReturn

Spec == Init /\ [][Next]_vars

(* ---- the owner of the queue and callers that pass a task again ---- *)
\* the owner of the queue gives up its reference, nvhost_queue_put, once it
\* has no call in progress; it makes no call afterwards
QueueClose ==
    /\ owner_ref /\ InSubmit = 0 /\ apc = "idle"
    /\ owner_ref' = FALSE
    /\ UNCHANGED <<qref, lvars, dvars, evars>>
    /\ UNCHANGED <<qvars, caller_ref, svars, wvars, avars>>
    /\ UNCHANGED <<cvars, rvars>>

\* a queue with one task, a second call of nvdla_queue_submit that passes
\* that task again, and an owner that may close the queue
InitCaller ==
    /\ InitQueue /\ InitBuilt /\ task_limit = 1
    /\ resubmit = 1 /\ enc = <<>> /\ seqb = <<>> /\ InitSequence
NextCaller == Next \/ QueueClose
SpecCaller == InitCaller /\ [][NextCaller]_vars

(* ---- task build: nvdla_fill_task_desc and its caller ---- *)
\* the task the caller is preparing gets the number after the tasks it has
\* handed to nvdla_queue_submit
NextTask == task_limit + 1

\* nvhost_queue_alloc_task_memory: the first free slot of the pool
FreeSlots(owner) == {i \in Slots : owner[i] = 0}
nvhost_queue_alloc_task_memory(owner) ==
    CHOOSE i \in FreeSlots(owner) : \A j \in FreeSlots(owner) : i <= j

\* queue->sequence + 1, back to 0 when it reaches UINT_MAX - 1
NextSequence(seq) == IF seq + 1 >= UINT_MAX - 1 THEN 0 ELSE seq + 1

\* nvdla_fill_preactions: -EINVAL at a pre-fence of unknown kind, before the
\* status entries; a pin that fails leaves its action out and the loop goes on
nvdla_fill_preactions(r, f) ==
    IF r.pre = "bad"
    THEN [err |-> "einval", pins |-> {}]
    ELSE [err |-> "ok",
          pins |-> {h \in {"presem", "instat"} :
                      \/ h = "presem" /\ r.pre = "sem" /\ f # "pin_presem"
                      \/ h = "instat" /\ r.instat > 0 /\ f # "pin_instat"}]

\* nvdla_fill_postactions: the same for the post-fence and the output status
nvdla_fill_postactions(r, f) ==
    IF r.post = "bad"
    THEN [err |-> "einval", pins |-> {}, signals |-> <<>>]
    ELSE [err |-> "ok",
          signals |-> SignalValues(r),
          pins |-> {h \in {"postsem", "outstat"} :
                      \/ h = "postsem" /\ r.post = "sem" /\ f # "pin_postsem"
                      \/ h = "outstat" /\ r.outstat > 0 /\ f # "pin_outstat"}]

\* variant: a resolution that has rewritten the descriptor and the address
\* list by the time the batched pin fails
nvdla_map_task_memory_early(r, f) ==
    LET n == IF r.naddr > 0 THEN r.naddr + 1 ELSE 0 IN
    IF n = 0
    THEN [err |-> "ok", num_handles |-> 0, memory_handles |-> "null",
          pins |-> {}, written |-> FALSE]
    ELSE IF f \in {"handles", "dma_addr", "dma_size", "buf_get", "vmap"}
    THEN [err |-> "enomem", num_handles |-> n, memory_handles |-> "null",
          pins |-> {}, written |-> FALSE]
    ELSE IF f = "pin_mem"
    THEN [err |-> "epin", num_handles |-> n, memory_handles |-> "dangling",
          pins |-> {}, written |-> TRUE]
    ELSE [err |-> "ok", num_handles |-> n, memory_handles |-> "alloc",
          pins |-> {"mem"}, written |-> TRUE]
\* nvdla_map_task_memory: num_handles = num_addresses + 1 when there are
\* addresses; the three kcalloc, dma_buf_get, dma_buf_vmap and the batched
\* pin, each of which can fail; every failure after the first kcalloc does
\* kfree(task->memory_handles) and leaves the pointer as it is; only success
\* rewrites the descriptor address fields and the address list
nvdla_map_task_memory(r, f) ==
    LET n == IF r.naddr > 0 THEN r.naddr + 1 ELSE 0 IN
    IF n = 0
    THEN [err |-> "ok", num_handles |-> 0, memory_handles |-> "null",
          pins |-> {}, written |-> FALSE]
    ELSE IF f = "handles"
    THEN [err |-> "enomem", num_handles |-> n, memory_handles |-> "null",
          pins |-> {}, written |-> FALSE]
    ELSE IF f \in {"dma_addr", "dma_size", "vmap"}
    THEN [err |-> "enomem", num_handles |-> n, memory_handles |-> "dangling",
          pins |-> {}, written |-> FALSE]
    ELSE IF f = "buf_get"
    THEN [err |-> "ebuf", num_handles |-> n, memory_handles |-> "dangling",
          pins |-> {}, written |-> FALSE]
    ELSE IF f = "pin_mem"
    THEN [err |-> "epin", num_handles |-> n, memory_handles |-> "dangling",
          pins |-> {}, written |-> FALSE]
    ELSE [err |-> "ok", num_handles |-> n, memory_handles |-> "alloc",
          pins |-> {"mem"}, written |-> TRUE]

\* the build of request r makes the call that fault f is about
FaultHits(r, f) ==
    \/ f = "slot"
    \/ f \in {"handles", "dma_addr", "dma_size", "buf_get", "vmap", "pin_mem"}
          /\ r.naddr > 0
    \/ f = "pin_presem" /\ r.pre = "sem"
    \/ f = "pin_instat" /\ r.pre # "bad" /\ r.instat > 0
    \/ f = "pin_postsem" /\ r.post = "sem"
    \/ f = "pin_outstat" /\ r.post # "bad" /\ r.outstat > 0

\* what nvdla_fill_task_desc returns once it has its slot: the results of
\* nvdla_fill_preactions and nvdla_fill_postactions are dropped
fill_task_desc_err(pre_err, post_err, map_err) == map_err

\* the caller allocates a task: zeroed, one reference, the declared fences,
\* status entries and addresses copied in
TaskAcquire ==
    /\ bpc \in {"none", "freed"} /\ nbuilds < MaxBuilds
    /\ InSubmit = 0 /\ ntasks = task_limit /\ NextTask \in Tasks
    /\ bpc' = "new"
    /\ \E r \in Requests : request' = [request EXCEPT ![NextTask] = r]
    /\ ref' = [ref EXCEPT ![NextTask] = 1]
    /\ caller_ref' = [caller_ref EXCEPT ![NextTask] = TRUE]
    /\ pool_index' = [pool_index EXCEPT ![NextTask] = 0]
    /\ task_desc' = [task_desc EXCEPT ![NextTask] = FALSE]
    /\ memory_handles' = [memory_handles EXCEPT ![NextTask] = "null"]
    /\ num_handles' = [num_handles EXCEPT ![NextTask] = 0]
    /\ pinned' = [pinned EXCEPT ![NextTask] = {}]
    /\ desc_written' = [desc_written EXCEPT ![NextTask] = FALSE]
    /\ slot_frees' = [slot_frees EXCEPT ![NextTask] = 0]
    /\ handle_frees' = [handle_frees EXCEPT ![NextTask] = 0]
    /\ bad_unpin' = [bad_unpin EXCEPT ![NextTask] = {}]
    /\ qref' = [qref EXCEPT ![NextTask] = 1]
    /\ own_signal' = [own_signal EXCEPT ![NextTask] = <<>>]
    /\ UNCHANGED <<tasklist, lock, min_val, max_val, sp_ref, pm_ref, notifiers,
                   engine, fence>>
    /\ UNCHANGED <<nbuilds, bret, bfault, sequence, slot_owner, foreign_free>>
    /\ UNCHANGED <<svars, wvars, avars>>
    /\ UNCHANGED <<owner_ref, lvars, evars>>

\* nvdla_fill_task_desc(task), with at most one of its calls failing
FillTaskDesc ==
    /\ bpc = "new"
    /\ nbuilds' = nbuilds + 1
    /\ \E f \in Faults :
        LET t == NextTask
            r == request[t]
        IN
        IF f = "slot" \/ FreeSlots(slot_owner) = {}
        THEN /\ bret' = "enomem" /\ bpc' = "failed" /\ bfault' = "slot"
             /\ UNCHANGED <<sequence, rvars, own_signal>>
        ELSE
        LET slot == nvhost_queue_alloc_task_memory(slot_owner)
            pre == nvdla_fill_preactions(r, f)
            post == nvdla_fill_postactions(r, f)
            map == nvdla_map_task_memory(r, f)
            e == fill_task_desc_err(pre.err, post.err, map.err)
        IN
        /\ sequence' = NextSequence(sequence)
        /\ pinned' = [pinned EXCEPT ![t] = pre.pins \cup post.pins \cup map.pins]
        /\ num_handles' = [num_handles EXCEPT ![t] = map.num_handles]
        /\ memory_handles' = [memory_handles EXCEPT ![t] = map.memory_handles]
        /\ desc_written' = [desc_written EXCEPT ![t] = map.written]
        /\ own_signal' = [own_signal EXCEPT ![t] = post.signals]
        /\ bret' = e
        /\ bfault' = IF FaultHits(r, f) THEN f ELSE "none"
        /\ handle_frees' = [handle_frees EXCEPT
              ![t] = IF map.memory_handles = "dangling" THEN @ + 1 ELSE @]
        /\ IF e = "ok"
           THEN /\ bpc' = "built"
                /\ slot_owner' = [slot_owner EXCEPT ![slot] = t]
                /\ pool_index' = [pool_index EXCEPT ![t] = slot]
                /\ task_desc' = [task_desc EXCEPT ![t] = TRUE]
                /\ UNCHANGED slot_frees
           ELSE \* fail_to_map_mem: nvdla_release_task_desc_mem(task)
                /\ bpc' = "failed"
                /\ slot_frees' = [slot_frees EXCEPT ![t] = @ + 1]
                /\ UNCHANGED <<slot_owner, pool_index, task_desc>>
        /\ UNCHANGED <<foreign_free, bad_unpin>>
    /\ UNCHANGED request
    /\ UNCHANGED <<qvars, caller_ref, svars, wvars, avars>>
    /\ UNCHANGED <<kvars, lvars, evars>>

\* the caller goes on to nvdla_queue_submit with the task it has built
TaskHandoff ==
    /\ bpc = "built"
    /\ bpc' = "none" /\ bret' = "none" /\ bfault' = "none"
    /\ task_limit' = task_limit + 1
    /\ UNCHANGED <<nbuilds, sequence, request, rvars>>
    /\ UNCHANGED <<qvars, caller_ref, waiting, spc, stask, sret, ntasks>>
    /\ UNCHANGED <<wvars, avars, xvars>>

\* the caller gives up the task it has prepared, built or not: nvdla_task_put
\* on its only reference, so task_free
TaskPut ==
    /\ bpc \in {"built", "failed"}
    /\ bpc' = "freed" /\ bret' = "none" /\ bfault' = "none"
    /\ nvdla_task_put(NextTask)
    /\ caller_ref' = [caller_ref EXCEPT ![NextTask] = FALSE]
    /\ UNCHANGED <<tasklist, lock, min_val, max_val, sp_ref, pm_ref, notifiers,
                   engine, fence>>
    /\ UNCHANGED <<nbuilds, sequence, request>>
    /\ UNCHANGED <<num_handles, pinned, desc_written, bad_unpin>>
    /\ UNCHANGED <<svars, wvars, avars>>
    /\ UNCHANGED <<resubmit, dvars, evars>>

\* a queue on which no task has been built yet
InitBuild ==
    /\ InitQueue /\ InitPlain
    /\ own_signal = [t \in Tasks |-> <<>>]
    /\ task_limit = 0
    /\ bpc = "none" /\ nbuilds = 0
    /\ request = [t \in Tasks |-> PlainRequest]
    /\ slot_owner = [i \in Slots |-> 0]
    /\ pool_index = [t \in Tasks |-> 0]
    /\ task_desc = [t \in Tasks |-> FALSE]
    /\ memory_handles = [t \in Tasks |-> "null"]
    /\ num_handles = [t \in Tasks |-> 0]

\* the life of the tasks of a queue: build, submit, engine, sweep, teardown;
\* nvdla_queue_abort, which touches no task and no descriptor, is left to Spec
NextBuild ==
    \/ TaskAcquire
    \/ FillTaskDesc
    \/ TaskHandoff
    \/ TaskPut
    \/ SubmitBusy
    \/ SubmitLink
    \/ SubmitFence
    \/ SubmitDispatch
    \/ \E t \in Tasks : CallerPut(t)
    \/ EngineComplete
    \/ SweepStart
    \/ SweepStep
    \/ SweepEnd

SpecBuild == InitBuild /\ [][NextBuild]_vars
\* the same program, run for one more submission
SpecLong == InitLong /\ [][Next]_vars

(* ---- the size of the descriptor and the encoding of the action lists ---- *)
\* the maxima and the sizes of the records, from the nvdla headers
MAX_NUM_NVDLA_PREFENCES == MaxFences
MAX_NUM_NVDLA_IN_TASK_STATUS == MaxFences
MAX_NUM_NVDLA_POSTFENCES == MaxFences
MAX_NUM_NVDLA_OUT_TASK_STATUS == MaxFences
MAX_NUM_ACTION_LIST == 1
\* sizeof(struct dla_action_opcode): the opcode byte
SizeofOpcode == 1
\* sizeof(struct dla_action_semaphore): 64-bit address, 32-bit value
SizeofSemaphore == 12
\* sizeof(struct dla_action_task_status): 64-bit address, 16-bit status
SizeofTaskStatus == 10
\* sizeof(struct dla_action_list): offset and size
SizeofActionList == 8
\* sizeof(struct dla_task_descriptor)
SizeofTaskDescriptor == 64

nvdla_get_max_preaction_size ==
    (MAX_NUM_NVDLA_PREFENCES + MAX_NUM_NVDLA_IN_TASK_STATUS) * SizeofOpcode
    + MAX_NUM_NVDLA_PREFENCES * SizeofSemaphore
    + MAX_NUM_NVDLA_IN_TASK_STATUS * SizeofTaskStatus
    + SizeofOpcode
nvdla_get_max_postaction_size ==
    (MAX_NUM_NVDLA_POSTFENCES + MAX_NUM_NVDLA_OUT_TASK_STATUS) * SizeofOpcode
    + MAX_NUM_NVDLA_POSTFENCES * SizeofSemaphore
    + MAX_NUM_NVDLA_OUT_TASK_STATUS * SizeofTaskStatus
    + SizeofOpcode
\* the descriptor, the two list heads, and nvdla_get_max_preaction_size()
\* added twice
nvdla_get_task_desc_size ==
    SizeofTaskDescriptor
    + 2 * MAX_NUM_ACTION_LIST * SizeofActionList
    + nvdla_get_max_preaction_size
    + nvdla_get_max_preaction_size

\* what a caller may declare: pre-fences of the three kinds, at most
\* MAX_NUM_NVDLA_PREFENCES together, each sync fd with pts pairs; input status
\* entries; post-fences; output status entries
DescCounts ==
    {c \in [syncpt : 0..MAX_NUM_NVDLA_PREFENCES,
            sem : 0..MAX_NUM_NVDLA_PREFENCES,
            syncfd : 0..MAX_NUM_NVDLA_PREFENCES,
            pts : 0..MaxSyncPts,
            instat : 0..MAX_NUM_NVDLA_IN_TASK_STATUS,
            post : 0..MAX_NUM_NVDLA_POSTFENCES,
            outstat : 0..MAX_NUM_NVDLA_OUT_TASK_STATUS] :
        c.syncpt + c.sem + c.syncfd <= MAX_NUM_NVDLA_PREFENCES}

\* uint16_t preactionlist_of, postactionlist_of
U16(n) == n % 65536
\* task_desc->preactions and task_desc->postactions, set by nvdla_fill_task_desc
DescPreactions == SizeofTaskDescriptor
DescPostactions == DescPreactions + SizeofActionList
\* nvdla_fill_preactions: next - start. One add_fence_action per SYNCPT and
\* SEMAPHORE pre-fence and per f->num_fences entry of a SYNC_FD pre-fence,
\* one add_status_action per input status entry, the terminating opcode
PreactionBytes(c) ==
    (c.syncpt + c.sem + c.syncfd * c.pts) * (SizeofOpcode + SizeofSemaphore)
    + c.instat * (SizeofOpcode + SizeofTaskStatus)
    + SizeofOpcode
\* nvdla_fill_postactions: next - start
PostactionBytes(c) ==
    c.post * (SizeofOpcode + SizeofSemaphore)
    + c.outstat * (SizeofOpcode + SizeofTaskStatus)
    + SizeofOpcode
\* the two lists as the descriptor records them
Layout(c) ==
    [pre_of |-> U16(DescPostactions + SizeofActionList),
     pre_len |-> PreactionBytes(c),
     post_of |-> U16(DescPostactions + SizeofActionList
                     + nvdla_get_max_preaction_size),
     post_len |-> PostactionBytes(c),
     size |-> nvdla_get_task_desc_size]

\* the action lists of the declared counts are encoded
EncodeLists ==
    /\ Len(enc) = 1
    /\ enc' = <<enc[1], Layout(enc[1])>>
    /\ UNCHANGED <<qvars, caller_ref, svars, wvars, avars, cvars, rvars>>
    /\ UNCHANGED <<kvars, lvars, dvars, seqb>>

\* a caller has declared its counts; nothing else goes on
InitDesc ==
    /\ InitQueue /\ InitBuilt /\ task_limit = 0 /\ resubmit = 0
    /\ seqb = <<>> /\ InitSequence
    /\ enc \in {<<c>> : c \in DescCounts}
NextDesc == EncodeLists
SpecDesc == InitDesc /\ [][NextDesc]_vars

(* ======================= properties ======================= *)
Linked(t) == t <= ntasks
\* t is linked and nvdla_queue_submit has stored its fence target
Assigned(t) == Linked(t) /\ ~(spc = "fence" /\ stask = t)
Completed(t) == completions[t] > 0
Reached(t) == nvhost_syncpt_is_expired(min_val, fence[t])

\* C1: the sweep never releases a task while a task submitted earlier on the
\* queue is still in the in-flight list (tasks are numbered in submission
\* order, so the earlier task has the smaller number)
C1_ReleaseInOrder ==
    \A a, b \in Tasks : (a < b /\ Completed(b)) => ~InList(a)

\* C2: every submit gets the previous issued maximum plus one as its fence
\* target, the targets are pairwise distinct, and the targets of the tasks in
\* the in-flight list increase strictly from head to tail
C2_ListOrder ==
    /\ \A i, j \in 1..Len(tasklist) :
        (i < j /\ Assigned(tasklist[j])) => fence[tasklist[i]] < fence[tasklist[j]]
    /\ \A t, u \in Tasks :
        (Assigned(t) /\ Assigned(u) /\ t # u) => fence[t] # fence[u]
    /\ \A t \in Tasks : Assigned(t) => fence[t] <= max_val
C3_CompletedOnce ==
    \A t \in Tasks : completions[t] <= 1
\* two tasks have been completed by sweeps while an abort was in progress
C3_Witness ==
    /\ completions[1] = 1 /\ completions[2] = 1
    /\ apc = "done" /\ did_reset

\* C4: once nvdla_queue_abort has returned success, no task submitted before
\* the call is in the in-flight list: each has been released
C4_AbortEmptiesList ==
    (apc = "ret" /\ err = "ok")
        => \A t \in Tasks : t <= abort_n0 => (~InList(t) /\ Completed(t))

\* C5: the reset that follows a successful flush sets the counter to the fence
\* target of the tail task, and right after it every task in the in-flight
\* list passes the sweep's completion test
C5_ResetReachesAll ==
    [][(apc = "reset" /\ apc' = "done")
        => /\ min_val' = fence[abort_t]
           /\ \A i \in 1..Len(tasklist') :
                nvhost_syncpt_is_expired(min_val', fence'[tasklist'[i]])]_vars

\* C6: nvdla_queue_abort on an empty in-flight list returns success at once:
\* no flush command, no power reference, no reset, the counter and the engine
\* untouched; this is so for every call, however many follow one another
C6_EmptyAbort ==
    /\ [][(apc = "idle" /\ apc' # "idle" /\ tasklist = <<>>)
            => /\ apc' = "ret" /\ err' = "ok"
               /\ flush_count' = 0 /\ abort_busy' = 0 /\ abort_idle' = 0
               /\ ~did_reset'
               /\ pm_ref' = pm_ref /\ min_val' = min_val /\ max_val' = max_val
               /\ engine' = engine /\ tasklist' = tasklist]_vars
    /\ []((apc = "ret" /\ abort_busy = 0 /\ err = "ok")
            => (flush_count = 0 /\ abort_idle = 0 /\ ~did_reset))
\* a call on an empty list has returned, after tasks had been through the queue
C6_Witness ==
    /\ apc = "ret" /\ err = "ok" /\ abort_busy = 0 /\ tasklist = <<>>
    /\ ntasks > 0

\* C7: "busy" k times and then success, k below the retry budget: exactly
\* k + 1 flush commands, then the counter is reset to the fence target of the
\* last in-flight task, and the call returns success
C7_BusyThenSuccess ==
    /\ [][(apc = "flush" /\ apc' # "flush" /\ err' = "ok")
            => (flush_count' = busy_count' + 1 /\ apc' = "tail")]_vars
    /\ [][(apc = "reset" /\ apc' = "done")
            => (err = "ok" /\ min_val' = fence[abort_t])]_vars
    /\ []((apc = "ret" /\ did_reset) => err = "ok")

\* C8: a flush answer that is neither success nor "busy" ends the loop: no
\* further flush command, that error is what the call returns, no reset, and
\* the call leaves the in-flight list as it is
C8_HardFailure ==
    /\ [](err = "fail"
            => (apc \in {"done", "ret"} /\ ~did_reset
                /\ flush_count = busy_count + 1))
    /\ [][(apc # apc')
            => /\ tasklist' = tasklist
               /\ (err = "fail"
                     => \/ apc' = "idle"
                        \/ (err' = "fail" /\ flush_count' = flush_count
                            /\ min_val' = min_val))]_vars
\* the third flush command was answered with a hard error and the call returned
C8_Witness ==
    apc = "ret" /\ err = "fail" /\ flush_count = 3 /\ tasklist # <<>>

\* C9: a call sends at most TIMEOUT / RETRY_PERIOD = 20 flush commands; when
\* all of them are answered "busy" it returns that failure without a reset;
\* success on the last permitted command still takes the success path
C9_RetryBudget ==
    /\ [](flush_count
            <= NVDLA_QUEUE_ABORT_TIMEOUT \div NVDLA_QUEUE_ABORT_RETRY_PERIOD)
    /\ []((apc # "flush" /\ flush_count > 0 /\ busy_count = flush_count)
            => (flush_count = 20 /\ err = "busy" /\ apc \in {"done", "ret"}
                /\ ~did_reset))
    /\ [][(apc = "flush" /\ apc' # "flush" /\ err' = "ok") => apc' = "tail"]_vars
    /\ [][(apc # apc' /\ err = "busy" /\ apc # "flush")
            => (tasklist' = tasklist /\ min_val' = min_val)]_vars
\* the budget ran out on "busy" answers and the call returned
C9_Witness ==
    apc = "ret" /\ err = "busy" /\ flush_count = 20 /\ busy_count = 20
        /\ tasklist # <<>>
\* the 20th command succeeded and the counter was reset
C9_WitnessLast ==
    apc = "ret" /\ err = "ok" /\ flush_count = 20 /\ did_reset

\* C10: a call that took the power reference has released exactly that one
\* reference when it returns; a call that took none releases none
C10_PowerRef ==
    /\ abort_busy <= 1 /\ abort_idle <= abort_busy
    /\ (apc = "ret" => abort_idle = abort_busy)
    /\ (apc \in {"flush", "tail", "reset", "done"} => abort_busy = 1)
    /\ ((apc = "ret" /\ err = "poweron") => abort_busy = 0)
\* the call returned after the retry budget ran out, its reference released
C10_Witness ==
    apc = "ret" /\ err = "busy" /\ abort_busy = 1 /\ abort_idle = 1

\* C13: one iteration of the sweep releases the task it visits exactly when
\* the counter's current value has reached the task's fence target; a task
\* whose target is not reached stays in the in-flight list, every other task
\* stays where it is, and no fence target changes
C13_SweepReleasesReached ==
    [][(wpc = "walk" /\ wpc' = "walk"
          /\ (cursor' # cursor \/ tasklist' # tasklist))
        => LET t == tasklist[cursor] IN
           /\ fence' = fence
           /\ IF min_val >= fence[t]
              THEN /\ tasklist' = RemoveAt(tasklist, cursor)
                   /\ completions' = [completions EXCEPT ![t] = @ + 1]
              ELSE /\ tasklist' = tasklist
                   /\ completions' = completions]_vars
\* the walk has released task 1 and passed task 2, whose target is not reached
C13_Witness ==
    /\ wpc = "walk" /\ cursor = 2 /\ tasklist = <<2>>
    /\ completions[1] = 1 /\ completions[2] = 0
    /\ Assigned(2) /\ min_val < fence[2]

\* C14: when the dispatch fails inside nvdla_queue_submit the call returns the
\* error, the task stays linked, the rollback leaves the counter's current
\* value alone, and the task does not pass the sweep's completion test, so no
\* sweep can release it before an abort resets the counter
C14_DispatchFailure ==
    [][(spc = "dispatch" /\ spc' = "none" /\ engine' = engine)
        => /\ sret' = "err"
           /\ tasklist' = tasklist /\ InList(stask)
           /\ min_val' = min_val
           /\ ~nvhost_syncpt_is_expired(min_val', fence'[stask])]_vars

\* C15: a call of nvdla_queue_submit whose nvhost_module_busy fails returns
\* -EINVAL and changes nothing: no lock, no task reference, no link, no fence
\* target, no syncpoint reference, no notifier, no command, no call left waiting
C15_PowerFailure ==
    [][(sret' = "einval" /\ sret # "einval")
        => /\ UNCHANGED <<tasklist, lock, min_val, max_val, sp_ref, pm_ref,
                          notifiers, engine, fence, ref>>
           /\ UNCHANGED <<ntasks, waiting, spc, stask>>]_vars
\* task 1 is in flight, its call has returned, and the call after it failed
\* to power on
C15_Witness ==
    /\ sret = "einval" /\ spc = "none" /\ waiting = 0
    /\ tasklist = <<1>> /\ Assigned(1) /\ ref[1] = 2

\* C16: list_lock is not held while nvdla_queue_submit is in the dispatch
\* call, so a sweep can take the lock while a submit is in dispatch
C16_DispatchUnlocked ==
    spc = "dispatch" => lock = "free"

\* C17: nvdla_queue_abort reads the in-flight list (the emptiness tests and
\* the tail lookup) only with list_lock its own, so never while a submit or a
\* sweep holds the lock, and the task whose fence it reads for the reset has
\* not been freed
C17_AbortReadsLocked ==
    /\ [](apc = "reset" => ref[abort_t] > 0)
    /\ [][((apc = "idle" /\ apc' # "idle") \/ (apc = "tail" /\ apc' # "tail"))
            => lock = "free"]_vars

\* C11: over the life of a task its descriptor slot is released once and its
\* handle array is freed once, whether the task completes, is given up
\* without being submitted, or failed to build: no second release, no release
\* of a slot that is not the task's own
C11_SlotFreedOnce ==
    /\ \A t \in Tasks : slot_frees[t] <= 1 /\ handle_frees[t] <= 1
    /\ ~foreign_free

\* C12: when a task has been destroyed every handle pinned for it has been
\* unpinned, and no handle is unpinned that was not pinned
C12_PinsBalanced ==
    \A t \in Tasks :
        /\ ref[t] = 0 => pinned[t] = {}
        /\ bad_unpin[t] = {}

\* C18: a build that fails leaves the in-flight list alone, and one that
\* fails for want of memory (the pool slot, or one of the arrays of
\* nvdla_map_task_memory) leaves the queue, its sequence counter and its pool
\* included, as they were before the call
C18_FailedBuildFrame ==
    [][(bpc = "new" /\ bpc' = "failed")
        => /\ UNCHANGED <<qvars, svars>>
           /\ bret' # "ok"
           /\ (bfault' \in {"slot", "handles", "dma_addr", "dma_size"}
                 => (sequence' = sequence /\ slot_owner' = slot_owner))]_vars

\* C19: a task with a pre-fence or a post-fence of unknown kind is never
\* built: nvdla_fill_task_desc returns -EINVAL for it
C19_BadFenceRejected ==
    [][(bpc = "new" /\ bpc' # "new"
          /\ bfault' # "slot"
          /\ (request[NextTask].pre = "bad" \/ request[NextTask].post = "bad"))
        => (bpc' = "failed" /\ bret' = "einval")]_vars

\* C20: when dma_buf_get or dma_buf_vmap of the address list, or the batched
\* pin of the memory handles, fails, nvdla_fill_task_desc fails with the
\* error of that call, the descriptor address fields and the address list
\* have not been rewritten, no memory handle stays pinned, and the task is
\* never linked or dispatched
C20_ResolutionAllOrNothing ==
    /\ [][(bpc = "new" /\ bpc' # "new"
              /\ bfault' \in {"buf_get", "vmap", "pin_mem"})
            => /\ bpc' = "failed"
               /\ bret' = (CASE bfault' = "buf_get" -> "ebuf"
                             [] bfault' = "vmap" -> "enomem"
                             [] bfault' = "pin_mem" -> "epin")
               /\ ~desc_written'[NextTask]
               /\ "mem" \notin pinned'[NextTask]]_vars
    /\ [](bpc = "failed"
            => /\ ~InList(NextTask)
               /\ \A i \in 1..Len(engine) : engine[i] # NextTask)
\* the batched pin failed for the second task while the first is in flight
C20_Witness ==
    /\ bpc = "failed" /\ bfault = "pin_mem" /\ bret = "epin"
    /\ tasklist = <<1>> /\ desc_written[1] /\ ~desc_written[2]

(* ---- the sweep releases only signalled tasks ---- *)
\* a task the engine accepted and has not yet finished
Executing(t) == \E i \in 1..Len(engine) : engine[i] = t

\* C27: a sweep never releases a task that the engine is still executing;
\* in particular a later task's dispatch failure does not release earlier ones
C27_ReleaseOnlySignalled ==
    [][\A t \in Tasks :
          completions'[t] > completions[t] => ~Executing(t)]_vars

(* ---- power references of the sweep ---- *)
\* the tasks the sweeps have completed so far
RECURSIVE SumCompletions(_)
SumCompletions(n) == IF n = 0 THEN 0 ELSE completions[n] + SumCompletions(n - 1)
\* C29: the sweeps release as many power references as the tasks they
\* complete: whenever no sweep and no abort is running, the references held
\* are those of the submits whose tasks no sweep has completed
C29_SweepReleasesCompleted ==
    (wpc = "idle" /\ apc = "idle")
        => pm_ref = ntasks + waiting - SumCompletions(LongTasks)

\* no call is in progress and no notifier is registered
Quiescent ==
    /\ InSubmit = 0 /\ wpc = "idle" /\ apc = "idle"
    /\ notifiers = {}

\* C30: the power references released never exceed those taken, and none
\* is held once the list is empty and the queue is quiescent
C30_PowerConserved ==
    /\ pm_ref >= 0
    /\ (tasklist = <<>> /\ Quiescent) => pm_ref = 0

C25_RefsInLockStep == \A t \in Tasks : qref[t] = ref[t]
\* a task after a get (by the submit) and a put (by the sweep), still held
\* by its caller, and a task holding the list's reference as well
C25_Witness ==
    \E t, u \in Tasks :
        /\ Completed(t) /\ ref[t] = 1 /\ qref[t] = 1
        /\ InList(u) /\ ref[u] = 2 /\ qref[u] = 2

\* C26: a task is linked at most once: list_add_tail never runs on a task
\* that is in the list, and no task is met twice on the list
C26_LinkedOnce ==
    [][/\ (spc # "fence" /\ spc' = "fence") => ~InList(stask')
       /\ \A i, j \in 1..Len(tasklist') : tasklist'[i] = tasklist'[j] => i = j]_vars

\* C28: when a nvdla_task_put drops the last reference of a task, so that
\* task_free runs and reads the queue, the queue still has a reference after
\* the nvhost_queue_put of that call
C28_QueueAliveInTeardown ==
    [][\A t \in Tasks :
          (ref[t] = 1 /\ ref'[t] = 0) => nvhost_queue_put(QueueRefs) > 0]_vars

(* ---- the descriptor ---- *)
\* C21: each encoded list fits its reserved worst-case size, the two lists
\* lie inside nvdla_get_task_desc_size, and the pre-action region ends before
\* the post-action region begins
C21_ListsFit ==
    Len(enc) = 2 =>
        LET l == enc[2] IN
        /\ l.pre_len <= nvdla_get_max_preaction_size
        /\ l.post_len <= nvdla_get_max_postaction_size
        /\ l.pre_of + l.pre_len <= l.post_of
        /\ l.post_of + l.post_len <= l.size

\* C22: the value of the task's own counter-signal action is 0 until the
\* task is submitted, and the task's fence target once the submit has
\* dispatched it
C22_SignalValue ==
    \A t \in Tasks : \A i \in 1..Len(own_signal[t]) :
        /\ ~Linked(t) => own_signal[t][i] = 0
        /\ Executing(t) => own_signal[t][i] = fence[t]

\* nvdla_fill_task_desc has returned 0 for the task
Built(t) == t <= task_limit \/ (t = NextTask /\ bpc = "built")
\* C23: the post-action list of every task built from fences of known kinds
\* holds a counter-signal action for the queue's own counter
C23_OwnSignalPresent ==
    \A t \in Tasks :
        (Built(t) /\ request[t].pre # "bad" /\ request[t].post # "bad")
            => own_signal[t] # <<>>

\* C31: when nvhost_intr_register_notifier fails in nvdla_queue_submit, the
\* call returns the error and sends no command to the engine, and the queue
\* is as before the call: the task is not in the in-flight list, and the task
\* reference, the syncpoint reference, the fence target and the power
\* reference the call took have been given back
RegisterFails == spc = "fence" /\ spc' = "none"
C31_RegisterFailureUndone ==
    [][RegisterFails
        => /\ sret' = "err" /\ engine' = engine
           /\ \A i \in 1..Len(tasklist') : tasklist'[i] # stask
           /\ ref'[stask] = ref[stask] - 1
           /\ sp_ref' = sp_ref
           /\ max_val' = max_val
           /\ pm_ref' = pm_ref - 1]_vars

(* ---- progress ---- *)
\* the engine finishes every task it was given, a notifier whose threshold
\* is reached runs nvdla_queue_update, and a call that holds or can take
\* list_lock goes on to its end
Fairness ==
    /\ WF_vars(EngineComplete)
    /\ WF_vars(SweepStart) /\ WF_vars(SweepStep) /\ WF_vars(SweepEnd)
    /\ WF_vars(SubmitLink) /\ WF_vars(SubmitFence) /\ WF_vars(SubmitDispatch)
\* the queue with no call of nvdla_queue_abort
NextLive ==
    \/ SubmitBusy
    \/ SubmitLink
    \/ SubmitFence
    \/ SubmitDispatch
    \/ \E t \in Tasks : CallerPut(t)
    \/ EngineComplete
    \/ SweepStart
    \/ SweepStep
    \/ SweepEnd
SpecLive == Init /\ [][NextLive]_vars /\ Fairness

\* nvdla_send_cmd succeeded for t and the engine has not finished it yet
Dispatched(t) == \E i \in 1..Len(engine) : engine[i] = t

\* C32: with the engine finishing every task it was given and every
\* notifier whose threshold is reached running the sweep, a task whose
\* nvdla_queue_submit returned success is eventually out of the in-flight
\* list and released by the sweep
C32_SubmittedIsReleased ==
    \A t \in Tasks : Dispatched(t) ~> (~InList(t) /\ Completed(t))

(* ---- the sequence counter of the queue ---- *)
\* nvdla_fill_task_desc, "update current task sequeue", statement by
\* statement, for callers that build tasks on the same queue:
\*     queue->sequence = queue->sequence + 1;
\*     if (unlikely(queue->sequence >= (UINT_MAX - 1))) queue->sequence = 0;
\*     task_desc->sequence = queue->sequence;
\* the function takes no lock, and an unsigned int addition wraps at its width
Builders == 1..NumSubmitters
\* the values queue->sequence has between two builds
SequenceVals == 0..(UINT_MAX - 2)
\* the builds one caller makes one after the other: once round the counter
SeqBuilds == UINT_MAX - 1
UintAdd(a, b) == (a + b) % (UINT_MAX + 1)
\* the wrap-around test
\* variant: a test that lets the counter reach UINT_MAX - 1
sequence_wrap_late(v) == IF v >= UINT_MAX THEN 0 ELSE v
sequence_wrap(v) == IF v >= UINT_MAX - 1 THEN 0 ELSE v
\* a caller between two builds, with n builds to make
SeqIdle(n) == [pc |-> "idle", tmp |-> 0, before |-> 0, stamp |-> 0, left |-> n]

\* what the stamping of a sequence number leaves alone
SeqFrame ==
    /\ UNCHANGED <<qvars, caller_ref, svars, wvars, avars, rvars>>
    /\ UNCHANGED <<bpc, nbuilds, bret, bfault, request>>
    /\ UNCHANGED <<kvars, lvars, dvars, enc>>

\* the read of queue->sequence in "queue->sequence + 1"
SeqLoad(b) ==
    /\ seqb # <<>> /\ seqb[b].pc = "idle" /\ seqb[b].left > 0
    /\ seqb' = [seqb EXCEPT ![b].pc = "loaded", ![b].tmp = sequence,
                            ![b].before = seqb[b].stamp,
                            ![b].left = @ - 1]
    /\ UNCHANGED sequence
    /\ SeqFrame
\* the write of "queue->sequence = ..."
SeqStore(b) ==
    /\ seqb # <<>> /\ seqb[b].pc = "loaded"
    /\ sequence' = UintAdd(seqb[b].tmp, 1)
    /\ seqb' = [seqb EXCEPT ![b].pc = "stored"]
    /\ SeqFrame
\* if (queue->sequence >= UINT_MAX - 1) queue->sequence = 0
SeqWrap(b) ==
    /\ seqb # <<>> /\ seqb[b].pc = "stored"
    /\ sequence' = sequence_wrap(sequence)
    /\ seqb' = [seqb EXCEPT ![b].pc = "tested"]
    /\ SeqFrame
\* task_desc->sequence = queue->sequence
SeqStamp(b) ==
    /\ seqb # <<>> /\ seqb[b].pc = "tested"
    /\ seqb' = [seqb EXCEPT ![b].pc = "idle", ![b].stamp = sequence]
    /\ UNCHANGED sequence
    /\ SeqFrame

NextSeq ==
    \/ \E b \in Builders : SeqLoad(b)
    \/ \E b \in Builders : SeqStore(b)
    \/ \E b \in Builders : SeqWrap(b)
    \/ \E b \in Builders : SeqStamp(b)

\* a queue whose counter is anywhere in its cycle, with the descriptor built
\* last stamped with it
InitSeqQueue ==
    /\ InitQueue /\ InitBuilt /\ task_limit = 0 /\ resubmit = 0 /\ enc = <<>>
    /\ sequence \in SequenceVals
\* one caller builds SeqBuilds tasks one after the other
InitSeqOne ==
    /\ InitSeqQueue
    /\ seqb = [b \in Builders |->
                 [SeqIdle(IF b = 1 THEN SeqBuilds ELSE 0) EXCEPT !.stamp = sequence]]
SpecSeqOne == InitSeqOne /\ [][NextSeq]_vars
\* every caller builds MaxBuilds tasks, at the same time as the others
InitSeq ==
    /\ InitSeqQueue
    /\ seqb = [b \in Builders |-> [SeqIdle(MaxBuilds) EXCEPT !.stamp = sequence]]
SpecSeq == InitSeq /\ [][NextSeq]_vars

\* C33: a build adds one to the sequence counter of the queue and stamps the
\* new value into the descriptor, so the descriptors one caller builds one
\* after the other carry increasing numbers; the counter goes back to 0
\* when the incremented value is UINT_MAX - 1 or more, and neither
\* UINT_MAX - 1 nor UINT_MAX is ever stamped
Stamps(b) == seqb[b].pc = "tested" /\ seqb'[b].pc = "idle"
C33_SequenceStamped ==
    [][\A b \in Builders :
        Stamps(b) =>
            /\ seqb'[b].stamp = sequence'
            /\ seqb'[b].stamp \notin {UINT_MAX - 1, UINT_MAX}
            /\ IF seqb[b].tmp + 1 >= UINT_MAX - 1
               THEN seqb'[b].stamp = 0
               ELSE /\ seqb'[b].stamp = seqb[b].tmp + 1
                    /\ seqb'[b].stamp > seqb[b].before]_vars
\* a caller has stamped the largest number and, with its next build, 0
C33_Witness ==
    /\ seqb # <<>> /\ seqb[1].pc = "idle" /\ seqb[1].left < SeqBuilds - 1
    /\ seqb[1].before = UINT_MAX - 2 /\ seqb[1].stamp = 0

\* b has finished a build of this run, so its stamp is that of its own descriptor
HasStamped(b) == seqb[b].pc = "idle" /\ seqb[b].left < MaxBuilds
Stores(b) == seqb[b].pc = "loaded" /\ seqb'[b].pc = "stored"
\* C34: the sequence counter is read and written under the queue lock, so
\* builds that run at the same time on one queue never stamp the same number
\* into their descriptors, and no increment is lost: every write of the
\* counter adds one to the value the counter has at that moment
C34_NoSharedStamp ==
    \A b, c \in Builders :
        (b # c /\ HasStamped(b) /\ HasStamped(c)) => seqb[b].stamp # seqb[c].stamp
C34_SequenceLocked ==
    /\ []C34_NoSharedStamp
    /\ [][\A b \in Builders : Stores(b) => sequence' = UintAdd(sequence, 1)]_vars

(* ---- the size of the descriptor as a function of the configured maxima ---- *)
\* nvdla_get_max_preaction_size for npre pre-fences and nin input status
\* entries at most
max_preaction_size(npre, nin) ==
    (npre + nin) * SizeofOpcode + npre * SizeofSemaphore
    + nin * SizeofTaskStatus + SizeofOpcode
\* nvdla_get_max_postaction_size for npost post-fences and nout output
\* status entries at most
max_postaction_size(npost, nout) ==
    (npost + nout) * SizeofOpcode + npost * SizeofSemaphore
    + nout * SizeofTaskStatus + SizeofOpcode
\* nvdla_get_task_desc_size: size += nvdla_get_max_preaction_size(), twice
task_desc_size(m) ==
    SizeofTaskDescriptor
    + 2 * MAX_NUM_ACTION_LIST * SizeofActionList
    + max_preaction_size(m.prefences, m.in_status)
    + max_preaction_size(m.prefences, m.in_status)
\* the configurations of the four maxima
Maxima ==
    [prefences : 0..MaxFences, in_status : 0..MaxFences,
     postfences : 0..MaxFences, out_status : 0..MaxFences]
\* the driver computes the size of its descriptors
SizeDescriptor ==
    /\ Len(enc) = 1
    /\ enc' = <<enc[1], task_desc_size(enc[1])>>
    /\ UNCHANGED <<qvars, caller_ref, svars, wvars, avars, cvars, rvars>>
    /\ UNCHANGED <<kvars, lvars, dvars, seqb>>
InitSize ==
    /\ InitQueue /\ InitBuilt /\ task_limit = 0 /\ resubmit = 0
    /\ seqb = <<>> /\ InitSequence
    /\ enc \in {<<m>> : m \in Maxima}
NextSize == SizeDescriptor
SpecSize == InitSize /\ [][NextSize]_vars

\* C35: for every configuration of the maxima of pre-fences, post-fences,
\* input and output status entries, the size nvdla_get_task_desc_size
\* computes is the descriptor header, two action-list headers, the largest
\* pre-action list and the largest post-action list
C35_DescSize ==
    Len(enc) = 2 =>
        enc[2] = SizeofTaskDescriptor + 2 * SizeofActionList
                 + max_preaction_size(enc[1].prefences, enc[1].in_status)
                 + max_postaction_size(enc[1].postfences, enc[1].out_status)

(* ---- the action lists, record by record ---- *)
\* Seq of length at most n over S
SeqsUpTo(S, n) == UNION {[1..k -> S] : k \in 0..n}
\* a pre-fence as the caller declares it: a SYNCPT wait, a SEMAPHORE wait
\* whose handle pins or not, or a SYNC_FD with pts counter/threshold pairs
\* (none when nvhost_sync_fdget fails)
PreFences ==
    {[type |-> "syncpt", pin |-> TRUE, pts |-> 0]}
    \cup {[type |-> "sem", pin |-> p, pts |-> 0] : p \in BOOLEAN}
    \cup {[type |-> "sync_fd", pin |-> TRUE, pts |-> n] : n \in 0..MaxSyncPts}
\* a post-fence: a SYNCPT signal, or a SEMAPHORE or TS_SEMAPHORE signal whose
\* handle pins or not
PostFences ==
    {[type |-> "syncpt", pin |-> TRUE, pts |-> 0]}
    \cup {[type |-> ty, pin |-> p, pts |-> 0] :
            ty \in {"sem", "ts_sem"}, p \in BOOLEAN}
\* the lists a build encodes: the fences of one kind of list, and for each
\* status entry whether its handle pins
ListJobs ==
    {[list |-> "pre", fences |-> f, status |-> st] :
        f \in SeqsUpTo(PreFences, MAX_NUM_NVDLA_PREFENCES),
        st \in SeqsUpTo(BOOLEAN, MAX_NUM_NVDLA_IN_TASK_STATUS)}
    \cup
    {[list |-> "post", fences |-> f, status |-> st] :
        f \in SeqsUpTo(PostFences, MAX_NUM_NVDLA_POSTFENCES),
        st \in SeqsUpTo(BOOLEAN, MAX_NUM_NVDLA_OUT_TASK_STATUS)}

\* add_opcode, add_fence_action, add_status_action: the record written at
\* the cursor; src is the entry of the request it was written for
add_opcode(mem, op) == Append(mem, [op |-> op, rec |-> "opcode", src |-> 0])
add_fence_action(mem, op, i) ==
    Append(mem, [op |-> op, rec |-> "semaphore", src |-> i])
add_status_action(mem, op, j) ==
    Append(mem, [op |-> op, rec |-> "status", src |-> j])
\* the bytes a record takes: its opcode and its payload
RecBytes(r) ==
    SizeofOpcode + (IF r.rec = "semaphore" THEN SizeofSemaphore
                    ELSE IF r.rec = "status" THEN SizeofTaskStatus ELSE 0)
RECURSIVE ListBytes(_)
ListBytes(mem) ==
    IF mem = <<>> THEN 0 ELSE RecBytes(Head(mem)) + ListBytes(Tail(mem))

\* for (j = 0; j < f->num_fences; j++) add_fence_action(PREACTION_SEM_GE, ...)
RECURSIVE SyncFdActions(_, _, _)
SyncFdActions(mem, i, n) ==
    IF n = 0 THEN mem
    ELSE SyncFdActions(add_fence_action(mem, "PREACTION_SEM_GE", i), i, n - 1)
\* the switch of nvdla_fill_preactions for pre-fence i: a pin that fails
\* leaves the switch with no action written
PreFenceAction(mem, f, i) ==
    IF f.type = "sync_fd" THEN SyncFdActions(mem, i, f.pts)
    ELSE IF f.type = "syncpt" THEN add_fence_action(mem, "PREACTION_SEM_GE", i)
    ELSE IF f.pin THEN add_fence_action(mem, "PREACTION_SEM_GE", i)
    ELSE mem
\* the switch of nvdla_fill_postactions for post-fence i
PostFenceAction(mem, f, i) ==
    IF f.type = "syncpt" THEN add_fence_action(mem, "POSTACTION_SEM", i)
    ELSE IF ~f.pin THEN mem
    ELSE IF f.type = "ts_sem" THEN add_fence_action(mem, "POSTACTION_TS_SEM", i)
    ELSE add_fence_action(mem, "POSTACTION_SEM", i)
\* for (i = 0; i < num_fences; i++) switch (...)
RECURSIVE FenceLoop(_, _, _, _)
FenceLoop(mem, list, fences, i) ==
    IF i > Len(fences) THEN mem
    ELSE FenceLoop(IF list = "pre" THEN PreFenceAction(mem, fences[i], i)
                   ELSE PostFenceAction(mem, fences[i], i),
                   list, fences, i + 1)
\* for (j = 0; j < num_status; j++) { if (nvhost_buffer_submit_pin(...))
\* break; next = add_status_action(...); }: the break leaves the for loop
RECURSIVE StatusLoop(_, _, _, _)
StatusLoop(mem, op, status, j) ==
    IF j > Len(status) THEN mem
    ELSE IF ~status[j] THEN mem
    ELSE StatusLoop(add_status_action(mem, op, j), op, status, j + 1)
\* nvdla_fill_preactions / nvdla_fill_postactions for one job: the fences,
\* the status entries, the terminating opcode, then the list head with
\* offset and size = next - start
fill_actions(job) ==
    LET pre == job.list = "pre"
        m1 == FenceLoop(<<>>, job.list, job.fences, 1)
        m2 == StatusLoop(m1, IF pre THEN "PREACTION_TASK_STATUS"
                             ELSE "POSTACTION_TASK_STATUS", job.status, 1)
        m3 == add_opcode(m2, IF pre THEN "PREACTION_TERMINATE"
                             ELSE "POSTACTION_TERMINATE")
    IN [records |-> m3,
        offset |-> IF pre THEN U16(DescPostactions + SizeofActionList)
                   ELSE U16(DescPostactions + SizeofActionList
                            + nvdla_get_max_preaction_size),
        size |-> ListBytes(m3),
        err |-> 0]

\* the build encodes the list of the job
FillActions ==
    /\ Len(enc) = 1
    /\ enc' = <<enc[1], fill_actions(enc[1])>>
    /\ UNCHANGED <<qvars, caller_ref, svars, wvars, avars, cvars, rvars>>
    /\ UNCHANGED <<kvars, lvars, dvars, seqb>>
InitActions ==
    /\ InitQueue /\ InitBuilt /\ task_limit = 0 /\ resubmit = 0
    /\ seqb = <<>> /\ InitSequence
    /\ enc \in {<<job>> : job \in ListJobs}
NextActions == FillActions
SpecActions == InitActions /\ [][NextActions]_vars

\* the list of the job has been encoded
Encoded == Len(enc) = 2
\* C36: after a successful build the pre-action list is one semaphore-wait
\* record per declared pre-fence, in the order declared, then one status
\* record per declared input status entry, then one terminating opcode, and
\* the list head records the offset of the list and the byte length of just
\* those records; the post-action list has the same shape
C36_ListShape ==
    Encoded =>
        LET job == enc[1]
            out == enc[2]
            nf == Len(job.fences)
            ns == Len(job.status)
        IN
        /\ out.err = 0
        /\ Len(out.records) = nf + ns + 1
        /\ \A i \in 1..nf :
            out.records[i].rec = "semaphore" /\ out.records[i].src = i
        /\ \A j \in 1..ns :
            out.records[nf + j].rec = "status" /\ out.records[nf + j].src = j
        /\ out.records[nf + ns + 1].rec = "opcode"
        /\ out.size = nf * (SizeofOpcode + SizeofSemaphore)
                      + ns * (SizeofOpcode + SizeofTaskStatus) + SizeofOpcode
        /\ out.offset = SizeofTaskDescriptor + 2 * SizeofActionList
                        + (IF job.list = "pre" THEN 0
                           ELSE nvdla_get_max_preaction_size)

\* C37: when the pin of the handle of one entry fails, that entry alone is
\* left out: every fence and every status entry whose pin succeeds, the later
\* ones too, has its record in the list, and the list ends with the
\* terminating opcode and records its true length
C37_PinFailureSkipsOne ==
    Encoded =>
        LET job == enc[1]
            out == enc[2]
            Has(rec, src) ==
                \E k \in 1..Len(out.records) :
                    out.records[k].rec = rec /\ out.records[k].src = src
        IN
        /\ \A i \in 1..Len(job.fences) :
            job.fences[i].type \in {"sem", "ts_sem"}
                => (Has("semaphore", i) <=> job.fences[i].pin)
        /\ \A j \in 1..Len(job.status) :
            Has("status", j) <=> job.status[j]
        /\ Last(out.records).rec = "opcode"
        /\ out.size = ListBytes(out.records)

(* ---- nvdla_map_task_memory on the address list ---- *)
\* the handles of user buffers, the offsets the caller gives with them, and
\* the device addresses nvhost_buffer_submit_pin returns for the handles
MemHandles == 1..MaxAddresses
MemOffsets == {0, 4}
DmaBases == {16, 32}
\* struct nvdla_mem_handle: handle and offset
MemEntries == [handle : MemHandles, offset : MemOffsets]
\* one call: the address list buffer of the task and its entries, the device
\* address of each handle, and the count field the descriptor slot holds
\* when the build starts: what the descriptor built in the slot before left
MapJobs ==
    [address_list : MemEntries,
     entries : SeqsUpTo(MemEntries, MaxAddresses),
     base : [MemHandles -> DmaBases],
     slot_count : 0..MaxAddresses]

\* nvdla_map_task_memory when no allocation and no pin fails. With no
\* address it returns before it writes the descriptor. Otherwise one call of
\* nvhost_buffer_submit_pin for num_addresses + 1 handles, the list buffer
\* first; task_desc->num_addresses, task_desc->address_list, and each entry
\* of the list replaced by the device address of its handle plus its offset
map_task_addresses(job) ==
    LET n == Len(job.entries)
        nhandles == IF n # 0 THEN n + 1 ELSE 0
        handles == <<job.address_list.handle>>
                   \o [i \in 1..n |-> job.entries[i].handle]
        dma_addr == [k \in 1..(n + 1) |-> job.base[handles[k]]]
    IN
    IF nhandles = 0
    THEN [err |-> 0, pin_calls |-> <<>>,
          num_addresses |-> job.slot_count,
          address_list |-> 0, list |-> <<>>]
    ELSE [err |-> 0, pin_calls |-> <<handles>>,
          num_addresses |-> n,
          address_list |-> dma_addr[1] + job.address_list.offset,
          list |-> [i \in 1..n |-> dma_addr[i + 1] + job.entries[i].offset]]

\* the build resolves the addresses of the task
MapTaskMemory ==
    /\ Len(enc) = 1
    /\ enc' = <<enc[1], map_task_addresses(enc[1])>>
    /\ UNCHANGED <<qvars, caller_ref, svars, wvars, avars, cvars, rvars>>
    /\ UNCHANGED <<kvars, lvars, dvars, seqb>>
InitMap ==
    /\ InitQueue /\ InitBuilt /\ task_limit = 0 /\ resubmit = 0
    /\ seqb = <<>> /\ InitSequence
    /\ enc \in {<<job>> : job \in MapJobs}
NextMap == MapTaskMemory
SpecMap == InitMap /\ [][NextMap]_vars

\* C38: for an address list of n entries the resolution pins n + 1 handles
\* in one call, the handle of the list buffer first; it replaces entry i of
\* the list by the offset of the entry plus the device address returned for
\* its handle, sets the address-list field of the descriptor to the device
\* address of the list buffer plus the list offset, and the count to n; with
\* no address list no handle is pinned and the count is 0
C38_AddressList ==
    Encoded =>
        LET job == enc[1]
            out == enc[2]
            n == Len(job.entries)
        IN
        IF n = 0
        THEN out.pin_calls = <<>> /\ out.num_addresses = 0
        ELSE /\ Len(out.pin_calls) = 1
             /\ Len(out.pin_calls[1]) = n + 1
             /\ out.pin_calls[1][1] = job.address_list.handle
             /\ \A i \in 1..n :
                 /\ out.pin_calls[1][i + 1] = job.entries[i].handle
                 /\ out.list[i] = job.entries[i].offset
                                  + job.base[job.entries[i].handle]
             /\ out.address_list = job.base[job.address_list.handle]
                                   + job.address_list.offset
             /\ out.num_addresses = n

\* a run of nvdla_task_free_locked for t
Completes(t) == completions'[t] = completions[t] + 1
\* the syncpoint references held are those of the submits that have passed
\* nvhost_syncpt_get_ref and whose task has not been completed
C39_RefsBalance ==
    sp_ref = ntasks - (IF spc = "fence" THEN 1 ELSE 0)
             - SumCompletions(LongTasks)
C40_TailNextZero ==
    (tasklist # <<>> /\ task_desc[Last(tasklist)])
        => desc_next[pool_index[Last(tasklist)]] = 0

====
